---- MODULE Spec2Model ----
(***************************************************************************)
(* A model of convapp.py: a menu that starts one of six linear workflows   *)
(* (native binary, AppImage, Bash wrapper, JAR wrapper, pre-built AppImage,*)
(* deletion).  The state is the filesystem, the position in the running    *)
(* workflow with its local variables, and what the run has shown to the    *)
(* user, which processes it has launched and which filesystem calls it has *)
(* made.  External tools, the dialogs and the failures of filesystem calls *)
(* are nondeterministic.                                                   *)
(***************************************************************************)
EXTENDS Naturals, Sequences, FiniteSets, TLC

\* How many times the program is started on the same filesystem.
MaxRuns == 2

\* ------------------------------------------------------------ the inputs
\* The names the user may type, and the files the user may pick.
Names == {"a", "b"}
Home == <<"/home/u">>
PyScript == <<"/home/u", "s.py">>
BashScript == <<"/home/u", "s.sh">>
JarFile == <<"/home/u", "s.jar">>
AppImageFile == <<"/home/u", "x.AppImage">>
IconFile == <<"/home/u", "i.png">>
\* A file dialog returns the empty string when it is cancelled.
NoPath == <<>>
\* simpledialog.askstring returns None when cancelled, else the text typed.
AskString == {[ok |-> FALSE, text |-> ""]} \cup {[ok |-> TRUE, text |-> s] : s \in {""} \cup Names}

\* ------------------------------------------------------------ paths
join(p, name) == Append(p, name)
basename(p) == p[Len(p)]
RECURSIVE PathStr(_)
PathStr(p) == IF Len(p) = 1 THEN p[1] ELSE PathStr(SubSeq(p, 1, Len(p) - 1)) \o "/" \o p[Len(p)]
Prefixes(p) == {SubSeq(p, 1, k) : k \in 1..Len(p)}
Under(p, q) == Len(q) >= Len(p) /\ SubSeq(q, 1, Len(p)) = p

work_dir == <<"/work">>
applications_dir == <<"/home/u", ".local", "share", "applications">>
py_apps_dir == join(applications_dir, "py_apps")
appimages_dir == join(applications_dir, "appimages")
AppDir(app_name) == join(work_dir, app_name \o ".AppDir")
usr_bin(app_name) == join(join(AppDir(app_name), "usr"), "bin")
desktop_file_dir(app_name) == join(join(join(AppDir(app_name), "usr"), "share"), "applications")
spec_file(app_name) == join(work_dir, app_name \o ".spec")
DesktopFile(dir, app_name, src) == join(dir, app_name \o ".desktop")

\* ------------------------------------------------------------ the filesystem
\* A function from the paths that exist to what is there.
Dir == [type |-> "dir", data |-> <<>>]
File(data) == [type |-> "file", data |-> data]
exists(f, p) == p \in DOMAIN f
isdir(f, p) == p \in DOMAIN f /\ f[p].type = "dir"
makedirs(f, p) == [q \in DOMAIN f \cup Prefixes(p) |-> IF q \in DOMAIN f THEN f[q] ELSE Dir]
rmtree(f, p) == [q \in {r \in DOMAIN f : ~Under(p, r)} |-> f[q]]
remove(f, p) == [q \in DOMAIN f \ {p} |-> f[q]]
\* A faulty variant of WriteFile: the file is opened for appending.
WriteAppend(f, p, data) == [q \in DOMAIN f \cup {p} |-> IF q = p THEN File((IF p \in DOMAIN f THEN f[p].data ELSE <<>>) \o data) ELSE f[q]]
\* open(p, "w") and write(data): the file holds data and nothing else.
WriteFile(f, p, data) == [q \in DOMAIN f \cup {p} |-> IF q = p THEN File(data) ELSE f[q]]
\* shutil.move of a file onto a path that is not a directory.
move(f, src, dst) == [q \in (DOMAIN f \ {src}) \cup {dst} |-> IF q = dst THEN f[src] ELSE f[q]]
copy(f, src, dst) == [q \in DOMAIN f \cup {dst} |-> IF q = dst THEN f[src] ELSE f[q]]
Listing(f, d) == {p \in DOMAIN f : Len(p) = Len(d) + 1 /\ Under(d, p)}

\* ------------------------------------------------------------ the entries
Default(icon_path) == IF icon_path # NoPath THEN PathStr(icon_path) ELSE "utilities-terminal"
Quoted(p) == "\"" \o PathStr(p) \o "\""
Record(name, exec, icon, terminal) ==
    << "[Desktop Entry]", "Type=Application", "Name=" \o name, "Exec=" \o exec,
       "Icon=" \o icon, "Terminal=" \o terminal, "Categories=Utility;" >>
\* A faulty variant of NativeEntry: Terminal follows the terminal answer.
NativeEntryMut(app_name, final_exe_path, icon_path, use_terminal) ==
    Record(app_name, Quoted(final_exe_path), Default(icon_path), IF use_terminal THEN "true" ELSE "false")
\* The template does not read use_terminal.
NativeEntry(app_name, final_exe_path, icon_path, use_terminal) ==
    Record(app_name, Quoted(final_exe_path), Default(icon_path), "false")
StagingEntry(app_name, icon_path) ==
    Record(app_name, app_name, Default(icon_path), "false")
BashEntry(app_name, bash_script, icon_path) ==
    Record(app_name, Quoted(bash_script), Default(icon_path), "true")
JarEntry(app_name, jar_file, icon_path) ==
    Record(app_name, "java -jar " \o Quoted(jar_file), Default(icon_path), "false")
AppImageEntry(app_name, final_appimage_path, icon_path) ==
    Record(app_name, Quoted(final_appimage_path), Default(icon_path), "false")

\* ------------------------------------------------------------ the commands
Opt(cond, arg) == IF cond THEN <<arg>> ELSE <<>>
\* A faulty variant of no_console_flag: the test is inverted.
NoConsoleFlagMut(use_terminal) == IF use_terminal THEN "--noconsole" ELSE ""
no_console_flag(use_terminal) == IF ~use_terminal THEN "--noconsole" ELSE ""
pyinstaller_cmd(py_script, app_name, icon_path, use_terminal) ==
    << "pyinstaller", "--onefile", "--name=" \o app_name >>
    \o Opt(icon_path # NoPath, "--icon=" \o PathStr(icon_path))
    \o Opt(no_console_flag(use_terminal) # "", no_console_flag(use_terminal))
    \o << PathStr(py_script) >>
PyinstallerProbe == << "pyinstaller", "--version" >>
LinuxdeployProbe == << "linuxdeploy", "--version" >>
PipInstall == << "python", "-m", "pip", "install", "--user", "pyinstaller" >>
linuxdeploy_cmd(app_name) == << "linuxdeploy", "--appdir", PathStr(AppDir(app_name)), "--output", "appimage" >>
\* How a launched process ends: it exits 0, exits non-zero, or cannot be launched.
Exits == {"0", "nonzero", "OSError"}
Proc(argv, rc) == [argv |-> argv, rc |-> rc]
\* A version probe: a non-zero exit and a failure to launch both raise into the
\* same except branch, and are logged as one.
Probed(argv, rc) == Proc(argv, IF rc = "0" THEN "0" ELSE "failed")

VARIABLES
    fs,       \* the filesystem
    pc,       \* the position in the program
    loc,      \* the running workflow's local variables
    shown,    \* the message boxes shown in this run, in order
    procs,    \* the processes launched in this run, in order, with how each ended
    calls,    \* the filesystem calls made in this run, in order
    status,   \* how the run ended ("running" until it has)
    pre,      \* the filesystem when the run started
    runs      \* how many times the program was started

vars == << fs, pc, loc, shown, procs, calls, status, pre, runs >>

NoLocals ==
    [ wf |-> "", src |-> NoPath, app_name |-> "", icon_path |-> NoPath, use_terminal |-> FALSE,
      exe_path |-> NoPath, final_path |-> NoPath ]

InitFs ==
    LET users == {PyScript, BashScript, JarFile, AppImageFile, IconFile}
    IN  [p \in {Home, work_dir} \cup users |-> IF p \in users THEN File(<<basename(p)>>) ELSE Dir]

Init ==
    /\ fs = InitFs
    /\ pc = "main_menu"
    /\ loc = NoLocals
    /\ shown = <<>>
    /\ procs = <<>>
    /\ calls = <<>>
    /\ status = "running"
    /\ pre = InitFs
    /\ runs = 1

Workflows ==
    { "convert_python_app", "convert_python_appimage", "create_bash_app", "create_jar_app",
      "convert_appimage_to_app", "delete_app" }

Msg(kind, title) == <<kind, title>>
Call(op, path) == <<op, path>>

\* The workflow ends here: nothing of it runs any more.
End(st, msgs) ==
    /\ pc' = "end"
    /\ status' = st
    /\ shown' = shown \o msgs

\* A button of the menu: the menu is destroyed and the workflow starts.
MainMenu ==
    /\ pc = "main_menu"
    /\ \E w \in Workflows :
        /\ pc' = w
        /\ loc' = [NoLocals EXCEPT !.wf = w]
    /\ UNCHANGED << fs, shown, procs, calls, status, pre, runs >>

\* The prompts of the two Python workflows: script, name, icon, terminal.
PythonPromptsOutcome(py_script, name, wantIcon, picked, use_terminal) ==
    IF py_script = NoPath
    THEN End("cancelled", << Msg("showinfo", "Cancelled") >>) /\ UNCHANGED loc
    ELSE IF ~name.ok \/ name.text = ""
    THEN End("cancelled", << Msg("showinfo", "Cancelled") >>) /\ loc' = [loc EXCEPT !.src = py_script]
    ELSE /\ loc' = [loc EXCEPT !.src = py_script, !.app_name = name.text,
                               !.icon_path = IF wantIcon THEN picked ELSE NoPath,
                               !.use_terminal = use_terminal]
         /\ pc' = "check_install_pyinstaller"
         /\ UNCHANGED << status, shown >>

PythonPrompts ==
    /\ pc \in {"convert_python_app", "convert_python_appimage"}
    /\ \E py_script \in {NoPath, PyScript}, name \in AskString, wantIcon \in BOOLEAN,
          picked \in {NoPath, IconFile}, use_terminal \in BOOLEAN :
            PythonPromptsOutcome(py_script, name, wantIcon, picked, use_terminal)
    /\ UNCHANGED << fs, procs, calls, pre, runs >>

AfterPyinstallerCheck == IF loc.wf = "convert_python_appimage" THEN "check_linuxdeploy" ELSE "run_pyinstaller"

\* check_install_pyinstaller: probe, and offer to install when the probe fails.
\* A faulty variant of CheckInstall: a declined offer and a failed install go on.
CheckInstallMut(probe, accept, pip) ==
    IF probe = "0" \/ ~accept
    THEN /\ procs' = Append(procs, Probed(PyinstallerProbe, probe))
         /\ pc' = AfterPyinstallerCheck
         /\ UNCHANGED << status, shown >>
    ELSE /\ procs' = procs \o << Probed(PyinstallerProbe, probe), Proc(PipInstall, pip) >>
         /\ pc' = AfterPyinstallerCheck
         /\ UNCHANGED << status, shown >>

CheckInstall(probe, accept, pip) ==
    IF probe = "0"
    THEN /\ procs' = Append(procs, Probed(PyinstallerProbe, probe))
         /\ pc' = AfterPyinstallerCheck
         /\ UNCHANGED << status, shown >>
    ELSE IF accept
    THEN /\ procs' = procs \o << Probed(PyinstallerProbe, probe), Proc(PipInstall, pip) >>
         /\ IF pip = "0"
            THEN pc' = AfterPyinstallerCheck /\ UNCHANGED << status, shown >>
            ELSE End("crashed", <<>>)
    ELSE /\ procs' = Append(procs, Probed(PyinstallerProbe, probe))
         /\ End("exited", << Msg("showerror", "Error") >>)

CheckInstallPyinstaller ==
    /\ pc = "check_install_pyinstaller"
    /\ \E probe \in Exits, accept \in BOOLEAN, pip \in Exits : CheckInstall(probe, accept, pip)
    /\ UNCHANGED << fs, loc, calls, pre, runs >>

\* check_linuxdeploy: probe, and exit when the probe fails.
CheckLinuxdeploy ==
    /\ pc = "check_linuxdeploy"
    /\ \E probe \in Exits :
        /\ procs' = Append(procs, Probed(LinuxdeployProbe, probe))
        /\ IF probe = "0"
           THEN pc' = "run_pyinstaller" /\ UNCHANGED << status, shown >>
           ELSE End("exited", << Msg("showerror", "Error") >>)
    /\ UNCHANGED << fs, loc, calls, pre, runs >>

\* What the packaging tool leaves in the working directory: its build directory
\* and its .spec file, and when it succeeds its output directory, with the
\* executable under the bare name (what the tool writes on Linux, where desktop
\* entries live) or without it.  A failing invocation is taken to fail after it
\* has written the build directory and the .spec file.
PyinstallerVariants == {"", "none"}
PyinstallerOutput(f, app_name, variant) ==
    LET g == WriteFile(makedirs(makedirs(f, join(work_dir, "build")), join(work_dir, "dist")),
                       spec_file(app_name), <<"spec">>)
    IN  IF variant = "none" THEN g
        ELSE WriteFile(g, join(join(work_dir, "dist"), app_name \o variant), <<"executable">>)
PyinstallerPartial(f, app_name) ==
    WriteFile(makedirs(f, join(work_dir, "build")), spec_file(app_name), <<"spec">>)

\* A faulty variant of Packaged: a non-zero exit is reported and the workflow goes on.
PackagedMut(rc, variant) ==
    /\ procs' = Append(procs, Proc(pyinstaller_cmd(loc.src, loc.app_name, loc.icon_path, loc.use_terminal), rc))
    /\ IF rc = "0"
       THEN /\ fs' = PyinstallerOutput(fs, loc.app_name, variant)
            /\ pc' = "locate"
            /\ UNCHANGED << status, shown >>
       ELSE IF rc = "nonzero"
       THEN /\ fs' = PyinstallerOutput(fs, loc.app_name, variant)
            /\ pc' = "locate"
            /\ status' = status
            /\ shown' = Append(shown, Msg("showerror", "Error"))
       ELSE /\ fs' = fs
            /\ End("crashed", <<>>)

\* The packaging invocation and what follows from how it ends.
Packaged(rc, variant) ==
    /\ procs' = Append(procs, Proc(pyinstaller_cmd(loc.src, loc.app_name, loc.icon_path, loc.use_terminal), rc))
    /\ IF rc = "0"
       THEN /\ fs' = PyinstallerOutput(fs, loc.app_name, variant)
            /\ pc' = "locate"
            /\ UNCHANGED << status, shown >>
       ELSE IF rc = "nonzero"
       THEN /\ fs' = PyinstallerPartial(fs, loc.app_name)
            /\ End("aborted", << Msg("showerror", "Error") >>)
       ELSE /\ fs' = fs
            /\ End("crashed", <<>>)

RunPyinstaller ==
    /\ pc = "run_pyinstaller"
    /\ \E rc \in Exits, variant \in PyinstallerVariants : Packaged(rc, variant)
    /\ UNCHANGED << loc, calls, pre, runs >>

\* The produced executable is looked up under the bare name, then with .exe.
Candidates(app_name) ==
    << join(join(work_dir, "dist"), app_name), join(join(work_dir, "dist"), app_name \o ".exe") >>
AfterLocate == IF loc.wf = "convert_python_appimage" THEN "stage" ELSE "relocate"
\* A faulty variant of Located: the bare name is taken without looking.
LocatedMut(c) ==
    /\ calls' = calls \o << Call("exists", c[1]) >>
    /\ loc' = [loc EXCEPT !.exe_path = c[1]]
    /\ pc' = AfterLocate
    /\ UNCHANGED << status, shown >>
Located(c) ==
    IF exists(fs, c[1])
    THEN /\ calls' = calls \o << Call("exists", c[1]) >>
         /\ loc' = [loc EXCEPT !.exe_path = c[1]]
         /\ pc' = AfterLocate
         /\ UNCHANGED << status, shown >>
    ELSE IF exists(fs, c[2])
    THEN /\ calls' = calls \o << Call("exists", c[1]), Call("exists", c[2]) >>
         /\ loc' = [loc EXCEPT !.exe_path = c[2]]
         /\ pc' = AfterLocate
         /\ UNCHANGED << status, shown >>
    ELSE /\ calls' = calls \o << Call("exists", c[1]), Call("exists", c[2]) >>
         /\ loc' = [loc EXCEPT !.exe_path = c[2]]
         /\ End("aborted", << Msg("showerror", "Error") >>)

LocateExecutable ==
    /\ pc = "locate"
    /\ Located(Candidates(loc.app_name))
    /\ UNCHANGED << fs, procs, pre, runs >>

\* A faulty variant of Relocated: a failure is ignored and the workflow goes on.
RelocatedMut(out, final_dir, next) ==
    LET final_exe_path == join(final_dir, loc.app_name)
    IN  /\ calls' = calls \o << Call("makedirs", final_dir), Call("move", loc.exe_path), Call("chmod", final_exe_path) >>
        /\ fs' = IF out = "ok" THEN move(makedirs(fs, final_dir), loc.exe_path, final_exe_path)
                 ELSE makedirs(fs, final_dir)
        /\ loc' = [loc EXCEPT !.final_path = final_exe_path]
        /\ pc' = next
        /\ UNCHANGED << status, shown >>

\* makedirs, move and chmod of the executable into final_dir.
Relocated(out, final_dir, next) ==
    LET final_exe_path == join(final_dir, loc.app_name)
    IN  IF out = "makedirs_fails"
        THEN /\ calls' = calls \o << Call("makedirs", final_dir) >>
             /\ UNCHANGED << fs, loc >>
             /\ End("crashed", <<>>)
        ELSE IF out = "move_fails"
        THEN /\ calls' = calls \o << Call("makedirs", final_dir), Call("move", loc.exe_path) >>
             /\ fs' = makedirs(fs, final_dir)
             /\ loc' = [loc EXCEPT !.final_path = final_exe_path]
             /\ End("aborted", << Msg("showerror", "Error") >>)
        ELSE IF out = "chmod_fails"
        THEN /\ calls' = calls \o << Call("makedirs", final_dir), Call("move", loc.exe_path), Call("chmod", final_exe_path) >>
             /\ fs' = move(makedirs(fs, final_dir), loc.exe_path, final_exe_path)
             /\ loc' = [loc EXCEPT !.final_path = final_exe_path]
             /\ End("aborted", << Msg("showerror", "Error") >>)
        ELSE /\ calls' = calls \o << Call("makedirs", final_dir), Call("move", loc.exe_path), Call("chmod", final_exe_path) >>
             /\ fs' = move(makedirs(fs, final_dir), loc.exe_path, final_exe_path)
             /\ loc' = [loc EXCEPT !.final_path = final_exe_path]
             /\ pc' = next
             /\ UNCHANGED << status, shown >>

RelocateOutcomes == {"ok", "makedirs_fails", "move_fails", "chmod_fails"}

\* convert_python_app: the executable goes to the binaries sub-directory.
Relocate ==
    /\ pc = "relocate"
    /\ \E out \in RelocateOutcomes : Relocated(out, py_apps_dir, "cleanup")
    /\ UNCHANGED << procs, pre, runs >>

\* convert_python_appimage: the executable goes to the staging directory.
Stage ==
    /\ pc = "stage"
    /\ \E out \in RelocateOutcomes : Relocated(out, usr_bin(loc.app_name), "write_staging_entry")
    /\ UNCHANGED << procs, pre, runs >>

\* The cleanup of the packaging tool's directories and .spec file.  A removal
\* that raises stops the cleanup there; failAt names the one that raises (0:
\* none).  The model lets the first removal raise, or none.
CleanupFailures == {0, 1}
CleanupTargets(app_name) == << join(work_dir, "build"), join(work_dir, "dist"), spec_file(app_name) >>
RECURSIVE CleanFrom(_, _, _, _)
CleanFrom(f, t, i, failAt) ==
    IF i > Len(t) THEN [fs |-> f, raised |-> FALSE, calls |-> <<>>]
    ELSE IF ~exists(f, t[i]) THEN
        LET r == CleanFrom(f, t, i + 1, failAt)
        IN  [r EXCEPT !.calls = << Call("exists", t[i]) >> \o r.calls]
    ELSE IF failAt = i THEN [fs |-> f, raised |-> TRUE, calls |-> << Call("exists", t[i]), Call("remove", t[i]) >>]
    ELSE LET r == CleanFrom(rmtree(f, t[i]), t, i + 1, failAt)
         IN  [r EXCEPT !.calls = << Call("exists", t[i]), Call("remove", t[i]) >> \o r.calls]

\* A faulty variant of Cleaned: nothing is removed.
CleanedMut(failAt) ==
    /\ UNCHANGED << fs, calls >>
    /\ IF loc.wf = "convert_python_app"
       THEN pc' = "write_entry" /\ UNCHANGED << status, shown >>
       ELSE End("success", <<>>)

Cleaned(failAt) ==
    LET r == CleanFrom(fs, CleanupTargets(loc.app_name), 1, failAt)
    IN  /\ fs' = r.fs
        /\ calls' = calls \o r.calls
        /\ IF r.raised THEN End("crashed", <<>>)
           ELSE IF loc.wf = "convert_python_app"
           THEN pc' = "write_entry" /\ UNCHANGED << status, shown >>
           ELSE End("success", <<>>)

Cleanup ==
    /\ pc = "cleanup"
    /\ \E failAt \in CleanupFailures :
        /\ failAt > 0 => exists(fs, CleanupTargets(loc.app_name)[failAt])
        /\ Cleaned(failAt)
    /\ UNCHANGED << loc, procs, pre, runs >>

\* The record each entry-writing workflow renders.
EntryOf(l) ==
    IF l.wf = "convert_python_app" THEN NativeEntry(l.app_name, l.final_path, l.icon_path, l.use_terminal)
    ELSE IF l.wf = "create_bash_app" THEN BashEntry(l.app_name, l.src, l.icon_path)
    ELSE IF l.wf = "create_jar_app" THEN JarEntry(l.app_name, l.src, l.icon_path)
    ELSE AppImageEntry(l.app_name, l.final_path, l.icon_path)

WriteOutcomes == {"ok", "makedirs_fails", "open_fails", "write_fails", "chmod_fails"}

\* makedirs, open(path, "w"), write and (with chmod) chmod of a desktop file.
\* What happens after it was written is the caller's.
Written(out, dir, path, data, chmod) ==
    IF out = "makedirs_fails"
    THEN /\ calls' = calls \o << Call("makedirs", dir) >>
         /\ fs' = fs
         /\ End("crashed", <<>>)
    ELSE IF out = "open_fails"
    THEN /\ calls' = calls \o << Call("makedirs", dir), Call("open", path) >>
         /\ fs' = makedirs(fs, dir)
         /\ End("aborted", << Msg("showerror", "Error") >>)
    ELSE IF out = "write_fails"
    THEN /\ calls' = calls \o << Call("makedirs", dir), Call("open", path), Call("write", path) >>
         /\ fs' = WriteFile(makedirs(fs, dir), path, <<>>)
         /\ End("aborted", << Msg("showerror", "Error") >>)
    ELSE IF out = "chmod_fails"
    THEN /\ calls' = calls \o << Call("makedirs", dir), Call("open", path), Call("write", path), Call("chmod", path) >>
         /\ fs' = WriteFile(makedirs(fs, dir), path, data)
         /\ End("aborted", << Msg("showerror", "Error") >>)
    ELSE /\ calls' = calls \o << Call("makedirs", dir), Call("open", path), Call("write", path) >>
                           \o (IF chmod THEN << Call("chmod", path) >> ELSE <<>>)
         /\ fs' = WriteFile(makedirs(fs, dir), path, data)

\* The desktop entry of the four workflows that write one to the entries directory.
WriteEntry ==
    /\ pc = "write_entry"
    /\ \E out \in WriteOutcomes :
        /\ Written(out, applications_dir, DesktopFile(applications_dir, loc.app_name, loc.src), EntryOf(loc), TRUE)
        /\ out = "ok" => End("success", << Msg("showinfo", "Success") >>)
    /\ UNCHANGED << loc, procs, pre, runs >>

\* convert_python_appimage: the desktop entry inside the staging directory.
WriteStagingEntry ==
    /\ pc = "write_staging_entry"
    /\ \E out \in WriteOutcomes \ {"chmod_fails"} :
        /\ Written(out, desktop_file_dir(loc.app_name),
                   DesktopFile(desktop_file_dir(loc.app_name), loc.app_name, loc.src),
                   StagingEntry(loc.app_name, loc.icon_path), FALSE)
        /\ out = "ok" => (pc' = "run_linuxdeploy" /\ UNCHANGED << status, shown >>)
    /\ UNCHANGED << loc, procs, pre, runs >>

\* convert_python_appimage: the bundling tool; its success is announced before
\* the cleanup.
RunLinuxdeploy ==
    /\ pc = "run_linuxdeploy"
    /\ \E rc \in Exits :
        /\ procs' = Append(procs, Proc(linuxdeploy_cmd(loc.app_name), rc))
        /\ IF rc = "0"
           THEN /\ shown' = Append(shown, Msg("showinfo", "Success"))
                /\ pc' = "cleanup"
                /\ UNCHANGED status
           ELSE IF rc = "nonzero"
           THEN End("aborted", << Msg("showerror", "Error") >>)
           ELSE End("crashed", <<>>)
    /\ UNCHANGED << fs, loc, calls, pre, runs >>

\* The prompts of the three wrapping workflows: file, name, icon.
Picked(wf) ==
    IF wf = "create_bash_app" THEN BashScript
    ELSE IF wf = "create_jar_app" THEN JarFile
    ELSE AppImageFile
AfterWrapPrompts(wf) == IF wf = "create_jar_app" THEN "write_entry" ELSE "chmod_source"

\* A faulty variant of WrapPromptsOutcome: an empty name is not refused.
WrapPromptsOutcomeMut(file, name, wantIcon, picked) ==
    IF file = NoPath
    THEN End("cancelled", << Msg("showinfo", "Cancelled") >>) /\ UNCHANGED loc
    ELSE IF ~name.ok
    THEN End("cancelled", << Msg("showinfo", "Cancelled") >>) /\ loc' = [loc EXCEPT !.src = file]
    ELSE /\ loc' = [loc EXCEPT !.src = file, !.app_name = name.text,
                               !.icon_path = IF wantIcon THEN picked ELSE NoPath]
         /\ pc' = AfterWrapPrompts(loc.wf)
         /\ UNCHANGED << status, shown >>

WrapPromptsOutcome(file, name, wantIcon, picked) ==
    IF file = NoPath
    THEN End("cancelled", << Msg("showinfo", "Cancelled") >>) /\ UNCHANGED loc
    ELSE IF ~name.ok \/ name.text = ""
    THEN End("cancelled", << Msg("showinfo", "Cancelled") >>) /\ loc' = [loc EXCEPT !.src = file]
    ELSE /\ loc' = [loc EXCEPT !.src = file, !.app_name = name.text,
                               !.icon_path = IF wantIcon THEN picked ELSE NoPath]
         /\ pc' = AfterWrapPrompts(loc.wf)
         /\ UNCHANGED << status, shown >>

WrapPrompts ==
    /\ pc \in {"create_bash_app", "create_jar_app", "convert_appimage_to_app"}
    /\ \E file \in {NoPath, Picked(loc.wf)}, name \in AskString, wantIcon \in BOOLEAN,
          picked \in {NoPath, IconFile} :
            WrapPromptsOutcome(file, name, wantIcon, picked)
    /\ UNCHANGED << fs, procs, calls, pre, runs >>

\* create_bash_app, convert_appimage_to_app: the picked file is made executable.
ChmodSource ==
    /\ pc = "chmod_source"
    /\ calls' = Append(calls, Call("chmod", loc.src))
    /\ \E ok \in BOOLEAN :
        IF ok
        THEN /\ pc' = IF loc.wf = "create_bash_app" THEN "write_entry" ELSE "copy_appimage"
             /\ UNCHANGED << status, shown >>
        ELSE End("aborted", << Msg("showerror", "Error") >>)
    /\ UNCHANGED << fs, loc, procs, pre, runs >>

\* convert_appimage_to_app: the AppImage is copied into the images sub-directory.
Copied(out, final_dir) ==
    LET final_appimage_path == join(final_dir, basename(loc.src))
    IN  IF out = "makedirs_fails"
        THEN /\ calls' = calls \o << Call("makedirs", final_dir) >>
             /\ UNCHANGED << fs, loc >>
             /\ End("crashed", <<>>)
        ELSE IF out = "copy_fails"
        THEN /\ calls' = calls \o << Call("makedirs", final_dir), Call("copy", loc.src) >>
             /\ fs' = makedirs(fs, final_dir)
             /\ loc' = [loc EXCEPT !.final_path = final_appimage_path]
             /\ End("aborted", << Msg("showerror", "Error") >>)
        ELSE IF out = "chmod_fails"
        THEN /\ calls' = calls \o << Call("makedirs", final_dir), Call("copy", loc.src), Call("chmod", final_appimage_path) >>
             /\ fs' = copy(makedirs(fs, final_dir), loc.src, final_appimage_path)
             /\ loc' = [loc EXCEPT !.final_path = final_appimage_path]
             /\ End("aborted", << Msg("showerror", "Error") >>)
        ELSE /\ calls' = calls \o << Call("makedirs", final_dir), Call("copy", loc.src), Call("chmod", final_appimage_path) >>
             /\ fs' = copy(makedirs(fs, final_dir), loc.src, final_appimage_path)
             /\ loc' = [loc EXCEPT !.final_path = final_appimage_path]
             /\ pc' = "write_entry"
             /\ UNCHANGED << status, shown >>

CopyAppimage ==
    /\ pc = "copy_appimage"
    /\ \E out \in {"ok", "makedirs_fails", "copy_fails", "chmod_fails"} : Copied(out, appimages_dir)
    /\ UNCHANGED << procs, pre, runs >>

\* delete_app.  The dialog opens in the entries directory; the user may pick a
\* file of it or of its two sub-directories.
IsFile(f, p) == f[p].type = "file"
Deletable(f) ==
    {p \in Listing(f, applications_dir) \cup Listing(f, py_apps_dir) \cup Listing(f, appimages_dir) : IsFile(f, p)}

DeletePromptsOutcome(selected_file, confirm) ==
    IF ~isdir(fs, applications_dir)
    THEN End("cancelled", << Msg("showinfo", "Info") >>) /\ UNCHANGED loc
    ELSE IF selected_file = NoPath
    THEN End("cancelled", << Msg("showinfo", "Cancelled") >>) /\ UNCHANGED loc
    ELSE IF ~confirm
    THEN End("cancelled", <<>>) /\ loc' = [loc EXCEPT !.src = selected_file]
    ELSE /\ loc' = [loc EXCEPT !.src = selected_file]
         /\ pc' = "remove"
         /\ UNCHANGED << status, shown >>

DeletePrompts ==
    /\ pc = "delete_app"
    /\ calls' = Append(calls, Call("isdir", applications_dir))
    /\ \E selected_file \in {NoPath} \cup Deletable(fs), confirm \in BOOLEAN :
        DeletePromptsOutcome(selected_file, confirm)
    /\ UNCHANGED << fs, procs, pre, runs >>

Remove ==
    /\ pc = "remove"
    /\ calls' = Append(calls, Call("remove", loc.src))
    /\ \E ok \in BOOLEAN :
        IF ok
        THEN fs' = remove(fs, loc.src) /\ End("success", << Msg("showinfo", "Deleted") >>)
        ELSE fs' = fs /\ End("aborted", << Msg("showerror", "Error") >>)
    /\ UNCHANGED << loc, procs, pre, runs >>

\* The program is started again, on the filesystem the last run left.
Restart ==
    /\ pc = "end"
    /\ runs < MaxRuns
    /\ runs' = runs + 1
    /\ pc' = "main_menu"
    /\ loc' = NoLocals
    /\ shown' = <<>>
    /\ procs' = <<>>
    /\ calls' = <<>>
    /\ status' = "running"
    /\ pre' = fs
    /\ UNCHANGED fs

Next ==
    \/ MainMenu
    \/ PythonPrompts
    \/ CheckInstallPyinstaller
    \/ CheckLinuxdeploy
    \/ RunPyinstaller
    \/ LocateExecutable
    \/ Relocate
    \/ Stage
    \/ Cleanup
    \/ WriteEntry
    \/ WriteStagingEntry
    \/ RunLinuxdeploy
    \/ WrapPrompts
    \/ ChmodSource
    \/ CopyAppimage
    \/ DeletePrompts
    \/ Remove
    \/ Restart

Spec == Init /\ [][Next]_vars

\* ------------------------------------------------------------ the claims
Range(sq) == {sq[i] : i \in DOMAIN sq}
Tree(f, d) == [p \in {q \in DOMAIN f : Under(d, q)} |-> f[p]]
EntryFiles(f) == {p \in Listing(f, applications_dir) : IsFile(f, p)}
EntriesDir(f) == [p \in Listing(f, applications_dir) |-> f[p]]
IsPackaging(p) == p.argv[1] = "pyinstaller" /\ p.argv[2] = "--onefile"
IsBundling(p) == p.argv[1] = "linuxdeploy" /\ p.argv[2] = "--appdir"
Packagings == {i \in DOMAIN procs : IsPackaging(procs[i])}
Native == loc.wf = "convert_python_app"
Image == loc.wf = "convert_python_appimage"
EntryWriting == loc.wf \in {"convert_python_app", "create_bash_app", "create_jar_app", "convert_appimage_to_app"}
Ended == pc = "end"
Succeeded == pc = "end" /\ status = "success"
WrittenPath == DesktopFile(applications_dir, loc.app_name, loc.src)
StagingPath(n) == DesktopFile(desktop_file_dir(n), n, NoPath)
NoScratch ==
    /\ ~exists(fs, join(work_dir, "build"))
    /\ ~exists(fs, join(work_dir, "dist"))
    /\ ~exists(fs, spec_file(loc.app_name))

\* C1: once the packaging tool has exited non-zero in a run, the run is over
\* and the entries directory (with its binaries sub-directory) and every staging
\* directory are as they were when the run started; nothing was moved or written.
C1_PackagingFailureChangesNothing ==
    (\E i \in Packagings : procs[i].rc = "nonzero") =>
        /\ pc = "end"
        /\ Tree(fs, applications_dir) = Tree(pre, applications_dir)
        /\ \A n \in Names : Tree(fs, AppDir(n)) = Tree(pre, AppDir(n))
        /\ \A c \in Range(calls) : c[1] \notin {"makedirs", "move", "open", "write", "chmod"}

C1_Witness ==
    /\ \E i \in Packagings : procs[i].rc = "nonzero"
    /\ EntryFiles(pre) # {}
    /\ Listing(pre, py_apps_dir) # {}

\* C2 as claimed: every ended run that invoked the packaging tool leaves no
\* build directory, no dist directory and no <name>.spec behind.
C2_Original ==
    (Ended /\ \E i \in Packagings : procs[i].rc # "OSError") => NoScratch

\* C2 as amended: a native-binary run that reached the writing of its entry,
\* and an AppImage run that ended in success, leave no build directory, no dist
\* directory and no <name>.spec behind.
C2_ScratchRemovedAfterCleanup ==
    (Ended /\ ( (Native /\ Call("makedirs", applications_dir) \in Range(calls))
                \/ (Image /\ status = "success") )) => NoScratch

C2_Witness ==
    /\ Succeeded /\ Image
    /\ exists(pre, join(work_dir, "build"))

\* C3: when neither dist/<name> nor dist/<name>.exe exists at the lookup, the
\* step probes the two in that order, reports an error and ends the run, and
\* leaves the filesystem as it is: nothing is moved, no directory is created,
\* no entry is written.
C3_MissingArtifactAborts ==
    [][ ( /\ pc = "locate"
          /\ ~exists(fs, Candidates(loc.app_name)[1])
          /\ ~exists(fs, Candidates(loc.app_name)[2]) )
        => ( /\ pc' = "end"
             /\ status' = "aborted"
             /\ fs' = fs
             /\ procs' = procs
             /\ shown' = Append(shown, Msg("showerror", "Error"))
             /\ calls' = calls \o << Call("exists", Candidates(loc.app_name)[1]),
                                     Call("exists", Candidates(loc.app_name)[2]) >> ) ]_vars

C3_Witness ==
    /\ Ended /\ status = "aborted" /\ (Native \/ Image)
    /\ procs # <<>> /\ IsPackaging(procs[Len(procs)]) /\ procs[Len(procs)].rc = "0"
    /\ calls = << Call("exists", Candidates(loc.app_name)[1]), Call("exists", Candidates(loc.app_name)[2]) >>
    /\ ~exists(fs, py_apps_dir) /\ ~exists(fs, AppDir(loc.app_name))

\* What an ended run's locals say about its prompts.
FilePickerEmpty ==
    /\ Ended /\ loc.src = NoPath
    /\ loc.wf = "delete_app" => isdir(pre, applications_dir)
NameEmpty == Ended /\ loc.wf # "delete_app" /\ loc.src # NoPath /\ loc.app_name = ""
ConfirmDeclined == Ended /\ loc.wf = "delete_app" /\ loc.src # NoPath /\ status = "cancelled"
InstallDeclined == Ended /\ status = "exited" /\ procs = << Proc(PyinstallerProbe, "failed") >>
NothingDone ==
    /\ fs = pre
    /\ procs = <<>>
    /\ \A c \in Range(calls) : c[1] = "isdir"
InformationalAbort ==
    /\ Len(shown) = 1 /\ shown[1][1] = "showinfo"
    /\ NothingDone

\* C4 as claimed: whichever prompt returns empty, cancelled or declined, the run
\* ends with one informational message, no error and nothing done.
C4_Original ==
    (FilePickerEmpty \/ NameEmpty \/ ConfirmDeclined \/ InstallDeclined) => InformationalAbort

\* C4 as amended: when the workflow's file picker or its name entry returns
\* empty or cancelled, the run ends with one informational message, no error
\* and nothing done; a declined delete confirmation ends the run with nothing
\* done and no message; a declined install offer ends it with an error.
C4_RequiredPromptCancelled ==
    /\ (FilePickerEmpty \/ NameEmpty) => (InformationalAbort /\ status = "cancelled")
    /\ ConfirmDeclined => (shown = <<>> /\ NothingDone)
    /\ InstallDeclined => (shown = << Msg("showerror", "Error") >> /\ fs = pre /\ calls = <<>>)

C4_Witness ==
    /\ NameEmpty /\ loc.wf = "create_bash_app"
    /\ EntryFiles(pre) # {}

\* C5: the packaging tool is only ever invoked after its version probe, and
\* then only when the probe succeeded or a pip install ran to exit 0 after it;
\* the bundling tool only after its own probe succeeded.
C5_ToolsProbedBeforeUse ==
    \A i \in DOMAIN procs :
        /\ IsPackaging(procs[i]) =>
            \E j \in 1..(i - 1) :
                /\ procs[j].argv = PyinstallerProbe
                /\ \/ procs[j].rc = "0"
                   \/ \E k \in (j + 1)..(i - 1) : procs[k] = Proc(PipInstall, "0")
        /\ IsBundling(procs[i]) =>
            \E j \in 1..(i - 1) : procs[j] = Proc(LinuxdeployProbe, "0")

C5_Witness ==
    /\ \E i \in DOMAIN procs : IsBundling(procs[i])
    /\ procs[1] = Proc(PyinstallerProbe, "failed")
    /\ procs[2] = Proc(PipInstall, "0")

\* C6: every entry file of the entries directory is named <name>.desktop after
\* the Name field it holds, so no two hold the same name; a workflow that has
\* written its entry leaves exactly its record in the file, whatever the file
\* held; and when the file already held that record, the entries directory is
\* after the run what it was before it.
C6_OneEntryPerName ==
    /\ \A p \in EntryFiles(fs) :
        fs[p].data # <<>> => \E n \in Names : fs[p].data[3] = "Name=" \o n /\ basename(p) = n \o ".desktop"
    /\ (Succeeded /\ EntryWriting) =>
        /\ exists(fs, WrittenPath) /\ fs[WrittenPath].data = EntryOf(loc)
        /\ \A p \in EntryFiles(fs) \ {WrittenPath} : p \in EntryFiles(pre) /\ fs[p] = pre[p]
        /\ EntryFiles(pre) \subseteq EntryFiles(fs)
        /\ (exists(pre, WrittenPath) /\ pre[WrittenPath].data = EntryOf(loc)) => EntriesDir(fs) = EntriesDir(pre)

C6_Witness ==
    /\ Succeeded /\ EntryWriting
    /\ exists(pre, WrittenPath)
    /\ pre[WrittenPath].data # <<>>
    /\ pre[WrittenPath].data # EntryOf(loc)

\* C7: the native-binary workflow passes --noconsole to the packaging tool
\* exactly when the user declined the terminal, and the entry it writes after a
\* hide-console choice has Terminal=false.
C7_NoConsoleIffHidden ==
    Native =>
        /\ \A i \in Packagings : ("--noconsole" \in Range(procs[i].argv)) <=> ~loc.use_terminal
        /\ (Succeeded /\ ~loc.use_terminal) => fs[WrittenPath].data[6] = "Terminal=false"

C7_Witness ==
    /\ Succeeded /\ Native /\ ~loc.use_terminal
    /\ "--noconsole" \in Range(procs[Len(procs)].argv)

\* C8 as claimed: a run that a failing step ended has reported that failure to
\* the user: the last thing it showed is an error message.
C8_Original ==
    (Ended /\ status \in {"aborted", "crashed", "exited"}) =>
        (shown # <<>> /\ shown[Len(shown)][1] = "showerror")

\* C9: the entry the native-binary, the JAR and the pre-built-image workflow
\* write has Terminal=false whatever the terminal answer was, and so has every
\* staging entry; the Bash workflow's entry has Terminal=true, and no other
\* entry has.
C9_TerminalFieldFixed ==
    /\ (Succeeded /\ EntryWriting) =>
        fs[WrittenPath].data[6] = (IF loc.wf = "create_bash_app" THEN "Terminal=true" ELSE "Terminal=false")
    /\ \A n \in Names :
        (exists(fs, StagingPath(n)) /\ fs[StagingPath(n)].data # <<>>) =>
            fs[StagingPath(n)].data[6] = "Terminal=false"
    /\ \A p \in EntryFiles(fs) :
        (fs[p].data # <<>> /\ fs[p].data[6] = "Terminal=true") => fs[p].data[4] = "Exec=" \o Quoted(BashScript)

C9_Witness ==
    /\ Succeeded /\ Native /\ loc.use_terminal
    /\ fs[WrittenPath].data[6] = "Terminal=false"

\* C10: as long as the deletion workflow removes entry files only, every entry
\* whose Exec names a file of the binaries or of the images sub-directory names
\* one that exists.
Targets == {join(py_apps_dir, n) : n \in Names} \cup {join(appimages_dir, basename(AppImageFile))}
TargetsExist(f) ==
    \A p \in EntryFiles(f) : \A q \in Targets :
        (f[p].data # <<>> /\ f[p].data[4] = "Exec=" \o Quoted(q)) => exists(f, q)
RemovesOther == pc = "remove" /\ loc.src \notin EntryFiles(fs)
C10_ExecTargetsExist ==
    /\ TargetsExist(fs)
    /\ [][ (TargetsExist(fs) /\ ~RemovesOther) => TargetsExist(fs') ]_vars

C10_Witness ==
    /\ Succeeded /\ loc.wf = "convert_appimage_to_app"
    /\ \E p \in EntryFiles(fs), n \in Names : fs[p].data # <<>> /\ fs[p].data[4] = "Exec=" \o Quoted(join(py_apps_dir, n))
    /\ TargetsExist(fs)

====
